---- MODULE Spec2Model ----
(***************************************************************************)
(* Resampling core of statistics_scripts: bootstrap, bootstrap_pairs,      *)
(* boostrap_pairs_lin_reg (bootstrap_test.py) and draw_perm_reps_spearman  *)
(* (permutation_tests.py).  One behaviour is one call of one operation.    *)
(*                                                                         *)
(* Conventions.  Positions are 1-based here and 0-based in the source; an  *)
(* index set is a tuple of positions.  A cell of a replicate array is <<>> *)
(* while it still holds what np.empty left there and <<v>> once the loop   *)
(* has stored v.  Percentile cut-points are kept in tenths of a percent    *)
(* (2.5 is 25) and percentile values are kept times 1000, so that the      *)
(* linear interpolation of np.percentile is exact integer arithmetic.      *)
(***************************************************************************)
EXTENDS Integers, Sequences, FiniteSets

\* longest input Sample
MaxLen == 2
\* largest iteration count
MaxB == 2
\* most positions one call draws in all: len(data_1) * iterations
MaxDraws == 6

\* the observations a Sample is made of
Values == {1, 2}
\* the values of the ci argument: the two supported ones and another one
CiValues == {95, 99, 90}

VARIABLES op, data_1, data_2, iterations, ci,
          pc, i, percentiles, bs_replicates, bs_intercept_reps,
          bs_inds, bs_x, bs_y, perm_sample_1, perm_sample_2, empirical_r,
          func_calls, func_args, rng_calls, err, result

inputs == <<op, data_1, data_2, iterations, ci>>
vars == <<op, data_1, data_2, iterations, ci,
          pc, i, percentiles, bs_replicates, bs_intercept_reps,
          bs_inds, bs_x, bs_y, perm_sample_1, perm_sample_2, empirical_r,
          func_calls, func_args, rng_calls, err, result>>

----------------------------------------------------------------------------
\* helpers on sequences

SeqsUpTo(S, n) == UNION {[1..k -> S] : k \in 0..n}

RECURSIVE Sum(_)
Sum(s) == IF s = <<>> THEN 0 ELSE Head(s) + Sum(Tail(s))

Min2(a, b) == IF a <= b THEN a ELSE b

\* sum of the products of the values at the same position
Dot(x, y) == Sum([k \in 1..Min2(Len(x), Len(y)) |-> x[k] * y[k]])

Remove(s, k) == [j \in 1..(Len(s) - 1) |-> IF j < k THEN s[j] ELSE s[j + 1]]

RECURSIVE Insert(_, _)
Insert(v, s) ==
    IF s = <<>> THEN <<v>>
    ELSE IF v <= Head(s) THEN <<v>> \o s
    ELSE <<Head(s)>> \o Insert(v, Tail(s))

RECURSIVE Sort(_)
Sort(s) == IF s = <<>> THEN <<>> ELSE Insert(Head(s), Sort(Tail(s)))

----------------------------------------------------------------------------
\* the statistic functions handed to the operations (the func argument)

\* one-sample statistic: a scalar
StatOne(x) == Sum(x)

\* two-sample statistic: the pair (statistic, p-value)
StatPair(x, y) == <<Dot(x, y), Sum(x) + Sum(y)>>

\* two-sample regression statistic: the pair (slope, intercept)
StatReg(x, y) == <<Dot(x, y), Sum(y) - Sum(x)>>

----------------------------------------------------------------------------
\* the random source

\* np.random.choice(inds, size=len(inds)): n positions, each in 1..n
IndexSets(n) == [1..n -> 1..n]

\* np.random.permutation(data): every reordering of data (any entry first, then
\* every reordering of the others; equal values give the same reorderings, so one
\* position stands for each value)
RECURSIVE Permutations(_)
Permutations(s) ==
    IF s = <<>> THEN {<<>>}
    ELSE UNION {{<<s[k]>> \o t : t \in Permutations(Remove(s, k))} :
                   k \in {n \in 1..Len(s) : \A m \in 1..(n - 1) : s[m] # s[n]}}

----------------------------------------------------------------------------
\* pieces of the operations

\* an else branch that falls back to the 95 cut-points
ChoosePercentilesDefault(c) ==
    IF c = 99 THEN <<5, 995>> ELSE <<25, 975>>

\* the two pairs of cut-points attached to the wrong Confidence Level
ChoosePercentilesSwapped(c) ==
    IF c = 95 THEN <<5, 995>>
    ELSE IF c = 99 THEN <<25, 975>>
    ELSE <<>>

\* the if/elif on ci; <<>> when neither branch binds percentiles
ChoosePercentiles(c) ==
    IF c = 95 THEN <<25, 975>>
    ELSE IF c = 99 THEN <<5, 995>>
    ELSE <<>>

\* np.empty(n + 1): one cell too many, holding whatever was in memory
EmptyOneMore(n) == [k \in 1..(n + 1) |-> IF k <= n THEN <<>> ELSE <<0>>]

\* np.empty(n)
Empty(n) == [k \in 1..n |-> <<>>]

\* the values stored in a replicate array
Stored(reps) == [k \in 1..Len(reps) |-> reps[k][1]]

\* a resample one element short of the index set
TakeShort(data, inds) == [k \in 1..(Len(inds) - 1) |-> data[inds[k]]]

\* data.iloc[inds] / np.random.choice(data, size=len(data))
Take(data, inds) == [k \in 1..Len(inds) |-> data[inds[k]]]

\* data.iloc[inds] raises IndexError
OutOfBounds(data, inds) == \E k \in 1..Len(inds) : inds[k] > Len(data)

\* the two Samples indexed by different index sets
PairResampleUnpaired(d1, d2, inds) ==
    <<Take(d1, inds), Take(d2, [k \in 1..Len(inds) |-> inds[Len(inds) + 1 - k]])>>

\* bs_x, bs_y = data_1.iloc[bs_inds], data_2.iloc[bs_inds]
PairResample(d1, d2, inds) == <<Take(d1, inds), Take(d2, inds)>>

\* the interpolation applied to the array as it stands, not sorted
PercentileUnsorted(a, q) ==
    LET pos  == (Len(a) - 1) * q
        lo   == pos \div 1000
        frac == pos % 1000
    IN  IF frac = 0 THEN 1000 * a[lo + 1]
        ELSE 1000 * a[lo + 1] + frac * (a[lo + 2] - a[lo + 1])

\* np.percentile(a, q) for one cut-point q, linear interpolation, times 1000
PercentileOf(a, q) ==
    LET s    == Sort(a)
        pos  == (Len(a) - 1) * q
        lo   == pos \div 1000
        frac == pos % 1000
    IN  IF frac = 0 THEN 1000 * s[lo + 1]
        ELSE 1000 * s[lo + 1] + frac * (s[lo + 2] - s[lo + 1])

\* np.percentile(a, percentiles)
Percentile(a, qs) == [k \in 1..Len(qs) |-> PercentileOf(a, qs[k])]

\* the split taken at len(data_2)
SplitAtSecond(d1, d2) == Len(d2)

\* perm_sample_1 = permuted_data[:len(data_1)]; perm_sample_2 = permuted_data[len(data_1):]
SplitAt(d1, d2) == Len(d1)

PermSplit(permuted, d1, d2) ==
    <<SubSeq(permuted, 1, SplitAt(d1, d2)),
      SubSeq(permuted, SplitAt(d1, d2) + 1, Len(permuted))>>

\* np.sum(perm_replicates > empirical_r): ties with the empirical value not counted
CountGT(reps, r) == Cardinality({k \in 1..Len(reps) : reps[k] > r})

\* np.sum(perm_replicates >= empirical_r)
RECURSIVE CountGE(_, _)
CountGE(reps, r) ==
    IF reps = <<>> THEN 0
    ELSE (IF Head(reps) >= r THEN 1 ELSE 0) + CountGE(Tail(reps), r)

\* np.sum(perm_replicates >= empirical_r) / len(perm_replicates), as <<numerator, denominator>>
PValue(reps, r) == <<CountGE(reps, r), Len(reps)>>

----------------------------------------------------------------------------
Init ==
    /\ op \in {"bootstrap", "bootstrap_pairs", "boostrap_pairs_lin_reg", "draw_perm_reps_spearman"}
    /\ data_1 \in SeqsUpTo(Values, MaxLen)
    /\ data_2 \in IF op = "bootstrap" THEN {<<>>} ELSE SeqsUpTo(Values, MaxLen)
    /\ iterations \in (0 - 1)..MaxB
    /\ Len(data_1) * iterations <= MaxDraws
    /\ ci \in CiValues
    /\ pc = "entry"
    /\ i = 0
    /\ percentiles = <<>>
    /\ bs_replicates = <<>>
    /\ bs_intercept_reps = <<>>
    /\ bs_inds = <<>>
    /\ bs_x = <<>>
    /\ bs_y = <<>>
    /\ perm_sample_1 = <<>>
    /\ perm_sample_2 = <<>>
    /\ empirical_r = <<>>
    /\ func_calls = 0
    /\ func_args = <<>>
    /\ rng_calls = 0
    /\ err = ""
    /\ result = <<>>

\* the exceptions that end a call
\* np.empty(iterations) with iterations < 0
ErrNegative == "ValueError: negative dimensions are not allowed"
\* func raises
ErrFunc == "StatisticFunctionFailure"
\* data_2.iloc[bs_inds] with a position past the end of data_2
ErrIloc == "IndexError: positional indexers are out-of-bounds"
\* percentiles read when neither branch of the if/elif on ci bound it
ErrUnbound == "UnboundLocalError: percentiles"
\* np.percentile on an array of length 0
ErrEmptyPercentile == "np.percentile: array of length 0"

\* the exception caught around the loop, the replicates stored so far handed back
RaiseReturnsPartial(e) ==
    /\ pc' = "done"
    /\ err' = e
    /\ result' = <<bs_replicates>>

\* an exception leaves the call: nothing is returned
Raise(e) ==
    /\ pc' = "error"
    /\ err' = e
    /\ result' = <<>>

----------------------------------------------------------------------------
\* bootstrap(data, func, iterations, ci); data is data_1

\* lines 73-80: percentiles from ci, bs_replicates = np.empty(iterations)
BootstrapSetup ==
    /\ op = "bootstrap" /\ pc = "entry"
    /\ percentiles' = ChoosePercentiles(ci)
    /\ \/ /\ iterations < 0
          /\ Raise(ErrNegative)
          /\ UNCHANGED bs_replicates
       \/ /\ iterations >= 0
          /\ bs_replicates' = Empty(iterations)
          /\ pc' = "loop"
          /\ UNCHANGED <<err, result>>
    /\ UNCHANGED <<inputs, i, bs_intercept_reps, bs_inds, bs_x, bs_y, perm_sample_1,
                   perm_sample_2, empirical_r, func_calls, func_args, rng_calls>>

\* lines 83-85, one pass of the loop: resample, apply func, store
BootstrapIter ==
    /\ op = "bootstrap" /\ pc = "loop" /\ i < iterations
    /\ \E inds \in IndexSets(Len(data_1)) :
          /\ bs_x' = Take(data_1, inds)
          /\ rng_calls' = rng_calls + 1
          /\ func_calls' = func_calls + 1
          /\ func_args' = <<Take(data_1, inds)>>
          /\ \/ /\ bs_replicates' = [bs_replicates EXCEPT ![i + 1] = <<StatOne(Take(data_1, inds))>>]
                /\ i' = i + 1
                /\ UNCHANGED <<pc, err, result>>
             \/ /\ Raise(ErrFunc)
                /\ UNCHANGED <<bs_replicates, i>>
    /\ UNCHANGED <<inputs, percentiles, bs_intercept_reps, bs_inds, bs_y, perm_sample_1,
                   perm_sample_2, empirical_r>>

\* lines 87-96, after the loop: np.percentile and return
BootstrapFinish ==
    /\ op = "bootstrap" /\ pc = "loop" /\ i >= iterations
    /\ \/ /\ percentiles = <<>>
          /\ Raise(ErrUnbound)
       \/ /\ percentiles # <<>> /\ bs_replicates = <<>>
          /\ Raise(ErrEmptyPercentile)
       \/ /\ percentiles # <<>> /\ bs_replicates # <<>>
          /\ result' = <<bs_replicates, Percentile(Stored(bs_replicates), percentiles)>>
          /\ pc' = "done"
          /\ UNCHANGED err
    /\ UNCHANGED <<inputs, i, percentiles, bs_replicates, bs_intercept_reps, bs_inds, bs_x, bs_y,
                   perm_sample_1, perm_sample_2, empirical_r, func_calls, func_args, rng_calls>>

----------------------------------------------------------------------------
\* bootstrap_pairs(data_1, data_2, func, iterations, ci)

\* lines 133-143: inds, bs_replicates = np.empty(iterations), percentiles from ci
PairsSetup ==
    /\ op = "bootstrap_pairs" /\ pc = "entry"
    /\ \/ /\ iterations < 0
          /\ Raise(ErrNegative)
          /\ UNCHANGED <<bs_replicates, percentiles>>
       \/ /\ iterations >= 0
          /\ bs_replicates' = Empty(iterations)
          /\ percentiles' = ChoosePercentiles(ci)
          /\ pc' = "loop"
          /\ UNCHANGED <<err, result>>
    /\ UNCHANGED <<inputs, i, bs_intercept_reps, bs_inds, bs_x, bs_y, perm_sample_1,
                   perm_sample_2, empirical_r, func_calls, func_args, rng_calls>>

\* the loop drawing its positions from the second Sample's index range
PairsIterIndexesSecond ==
    /\ op = "bootstrap_pairs" /\ pc = "loop" /\ i < iterations
    /\ \E inds \in IndexSets(Len(data_2)) :
          /\ bs_inds' = inds
          /\ rng_calls' = rng_calls + 1
          /\ \/ /\ OutOfBounds(data_1, inds) \/ OutOfBounds(data_2, inds)
                /\ Raise(ErrIloc)
                /\ UNCHANGED <<bs_x, bs_y, func_calls, func_args, bs_replicates, i>>
             \/ /\ ~OutOfBounds(data_1, inds) /\ ~OutOfBounds(data_2, inds)
                /\ bs_x' = PairResample(data_1, data_2, inds)[1]
                /\ bs_y' = PairResample(data_1, data_2, inds)[2]
                /\ func_calls' = func_calls + 1
                /\ func_args' = PairResample(data_1, data_2, inds)
                /\ \/ /\ bs_replicates' = [bs_replicates EXCEPT ![i + 1] =
                            <<StatPair(PairResample(data_1, data_2, inds)[1],
                                       PairResample(data_1, data_2, inds)[2])[1]>>]
                      /\ i' = i + 1
                      /\ UNCHANGED <<pc, err, result>>
                   \/ /\ Raise(ErrFunc)
                      /\ UNCHANGED <<bs_replicates, i>>
    /\ UNCHANGED <<inputs, percentiles, bs_intercept_reps, perm_sample_1, perm_sample_2,
                   empirical_r>>

\* the loop storing the second component of what func returned
PairsIterStoresPValue ==
    /\ op = "bootstrap_pairs" /\ pc = "loop" /\ i < iterations
    /\ \E inds \in IndexSets(Len(data_1)) :
          /\ bs_inds' = inds
          /\ rng_calls' = rng_calls + 1
          /\ \/ /\ OutOfBounds(data_2, inds)
                /\ Raise(ErrIloc)
                /\ UNCHANGED <<bs_x, bs_y, func_calls, func_args, bs_replicates, i>>
             \/ /\ ~OutOfBounds(data_2, inds)
                /\ bs_x' = PairResample(data_1, data_2, inds)[1]
                /\ bs_y' = PairResample(data_1, data_2, inds)[2]
                /\ func_calls' = func_calls + 1
                /\ func_args' = PairResample(data_1, data_2, inds)
                /\ \/ /\ bs_replicates' = [bs_replicates EXCEPT ![i + 1] =
                            <<StatPair(PairResample(data_1, data_2, inds)[1],
                                       PairResample(data_1, data_2, inds)[2])[2]>>]
                      /\ i' = i + 1
                      /\ UNCHANGED <<pc, err, result>>
                   \/ /\ Raise(ErrFunc)
                      /\ UNCHANGED <<bs_replicates, i>>
    /\ UNCHANGED <<inputs, percentiles, bs_intercept_reps, perm_sample_1, perm_sample_2,
                   empirical_r>>

\* lines 146-154, one pass of the loop
PairsIter ==
    /\ op = "bootstrap_pairs" /\ pc = "loop" /\ i < iterations
    /\ \E inds \in IndexSets(Len(data_1)) :
          /\ bs_inds' = inds
          /\ rng_calls' = rng_calls + 1
          /\ \/ /\ OutOfBounds(data_2, inds)
                /\ Raise(ErrIloc)
                /\ UNCHANGED <<bs_x, bs_y, func_calls, func_args, bs_replicates, i>>
             \/ /\ ~OutOfBounds(data_2, inds)
                /\ bs_x' = PairResample(data_1, data_2, inds)[1]
                /\ bs_y' = PairResample(data_1, data_2, inds)[2]
                /\ func_calls' = func_calls + 1
                /\ func_args' = PairResample(data_1, data_2, inds)
                /\ \/ /\ bs_replicates' = [bs_replicates EXCEPT ![i + 1] =
                            <<StatPair(PairResample(data_1, data_2, inds)[1],
                                       PairResample(data_1, data_2, inds)[2])[1]>>]
                      /\ i' = i + 1
                      /\ UNCHANGED <<pc, err, result>>
                   \/ /\ Raise(ErrFunc)
                      /\ UNCHANGED <<bs_replicates, i>>
    /\ UNCHANGED <<inputs, percentiles, bs_intercept_reps, perm_sample_1, perm_sample_2,
                   empirical_r>>

\* lines 156-165, after the loop
PairsFinish ==
    /\ op = "bootstrap_pairs" /\ pc = "loop" /\ i >= iterations
    /\ \/ /\ percentiles = <<>>
          /\ Raise(ErrUnbound)
       \/ /\ percentiles # <<>> /\ bs_replicates = <<>>
          /\ Raise(ErrEmptyPercentile)
       \/ /\ percentiles # <<>> /\ bs_replicates # <<>>
          /\ result' = <<bs_replicates, Percentile(Stored(bs_replicates), percentiles)>>
          /\ pc' = "done"
          /\ UNCHANGED err
    /\ UNCHANGED <<inputs, i, percentiles, bs_replicates, bs_intercept_reps, bs_inds, bs_x, bs_y,
                   perm_sample_1, perm_sample_2, empirical_r, func_calls, func_args, rng_calls>>

----------------------------------------------------------------------------
\* boostrap_pairs_lin_reg(data_1, data_2, func, iterations, ci);
\* bs_replicates is bs_slope_reps

\* lines 201-212
LinRegSetup ==
    /\ op = "boostrap_pairs_lin_reg" /\ pc = "entry"
    /\ \/ /\ iterations < 0
          /\ Raise(ErrNegative)
          /\ UNCHANGED <<bs_replicates, bs_intercept_reps, percentiles>>
       \/ /\ iterations >= 0
          /\ bs_replicates' = Empty(iterations)
          /\ bs_intercept_reps' = Empty(iterations)
          /\ percentiles' = ChoosePercentiles(ci)
          /\ pc' = "loop"
          /\ UNCHANGED <<err, result>>
    /\ UNCHANGED <<inputs, i, bs_inds, bs_x, bs_y, perm_sample_1, perm_sample_2,
                   empirical_r, func_calls, func_args, rng_calls>>

\* lines 215-221, one pass of the loop
LinRegIter ==
    /\ op = "boostrap_pairs_lin_reg" /\ pc = "loop" /\ i < iterations
    /\ \E inds \in IndexSets(Len(data_1)) :
          /\ bs_inds' = inds
          /\ rng_calls' = rng_calls + 1
          /\ \/ /\ OutOfBounds(data_2, inds)
                /\ Raise(ErrIloc)
                /\ UNCHANGED <<bs_x, bs_y, func_calls, func_args, bs_replicates,
                               bs_intercept_reps, i>>
             \/ /\ ~OutOfBounds(data_2, inds)
                /\ bs_x' = PairResample(data_1, data_2, inds)[1]
                /\ bs_y' = PairResample(data_1, data_2, inds)[2]
                /\ func_calls' = func_calls + 1
                /\ func_args' = PairResample(data_1, data_2, inds)
                /\ \/ /\ bs_replicates' = [bs_replicates EXCEPT ![i + 1] =
                            <<StatReg(PairResample(data_1, data_2, inds)[1],
                                      PairResample(data_1, data_2, inds)[2])[1]>>]
                      /\ bs_intercept_reps' = [bs_intercept_reps EXCEPT ![i + 1] =
                            <<StatReg(PairResample(data_1, data_2, inds)[1],
                                      PairResample(data_1, data_2, inds)[2])[2]>>]
                      /\ i' = i + 1
                      /\ UNCHANGED <<pc, err, result>>
                   \/ /\ Raise(ErrFunc)
                      /\ UNCHANGED <<bs_replicates, bs_intercept_reps, i>>
    /\ UNCHANGED <<inputs, percentiles, perm_sample_1, perm_sample_2, empirical_r>>

\* the Interval taken over the intercept collection
LinRegFinishOverIntercepts ==
    /\ op = "boostrap_pairs_lin_reg" /\ pc = "loop" /\ i >= iterations
    /\ \/ /\ percentiles = <<>>
          /\ Raise(ErrUnbound)
       \/ /\ percentiles # <<>> /\ bs_replicates = <<>>
          /\ Raise(ErrEmptyPercentile)
       \/ /\ percentiles # <<>> /\ bs_replicates # <<>>
          /\ result' = <<bs_replicates, bs_intercept_reps,
                         Percentile(Stored(bs_intercept_reps), percentiles)>>
          /\ pc' = "done"
          /\ UNCHANGED err
    /\ UNCHANGED <<inputs, i, percentiles, bs_replicates, bs_intercept_reps, bs_inds, bs_x, bs_y,
                   perm_sample_1, perm_sample_2, empirical_r, func_calls, func_args, rng_calls>>

\* lines 223-226, after the loop
LinRegFinish ==
    /\ op = "boostrap_pairs_lin_reg" /\ pc = "loop" /\ i >= iterations
    /\ \/ /\ percentiles = <<>>
          /\ Raise(ErrUnbound)
       \/ /\ percentiles # <<>> /\ bs_replicates = <<>>
          /\ Raise(ErrEmptyPercentile)
       \/ /\ percentiles # <<>> /\ bs_replicates # <<>>
          /\ result' = <<bs_replicates, bs_intercept_reps,
                         Percentile(Stored(bs_replicates), percentiles)>>
          /\ pc' = "done"
          /\ UNCHANGED err
    /\ UNCHANGED <<inputs, i, percentiles, bs_replicates, bs_intercept_reps, bs_inds, bs_x, bs_y,
                   perm_sample_1, perm_sample_2, empirical_r, func_calls, func_args, rng_calls>>

----------------------------------------------------------------------------
\* draw_perm_reps_spearman(data_1, data_2, func, iterations, ci);
\* bs_replicates is perm_replicates

\* lines 99-102: the empirical statistic, perm_replicates = np.empty(iterations)
PermSetup ==
    /\ op = "draw_perm_reps_spearman" /\ pc = "entry"
    /\ func_calls' = func_calls + 1
    /\ func_args' = <<data_1, data_2>>
    /\ \/ /\ Raise(ErrFunc)
          /\ UNCHANGED <<empirical_r, bs_replicates>>
       \/ /\ empirical_r' = <<StatPair(data_1, data_2)[1]>>
          /\ \/ /\ iterations < 0
                /\ Raise(ErrNegative)
                /\ UNCHANGED bs_replicates
             \/ /\ iterations >= 0
                /\ bs_replicates' = Empty(iterations)
                /\ pc' = "loop"
                /\ UNCHANGED <<err, result>>
    /\ UNCHANGED <<inputs, i, percentiles, bs_intercept_reps, bs_inds, bs_x, bs_y,
                   perm_sample_1, perm_sample_2, rng_calls>>

\* the loop binding the empirical statistic again to what func returned in the pass
PermIterRebindsEmpirical ==
    /\ op = "draw_perm_reps_spearman" /\ pc = "loop" /\ i < iterations
    /\ \E permuted_data \in Permutations(data_1 \o data_2) :
          /\ perm_sample_1' = PermSplit(permuted_data, data_1, data_2)[1]
          /\ perm_sample_2' = PermSplit(permuted_data, data_1, data_2)[2]
          /\ rng_calls' = rng_calls + 1
          /\ func_calls' = func_calls + 1
          /\ func_args' = PermSplit(permuted_data, data_1, data_2)
          /\ \/ /\ bs_replicates' = [bs_replicates EXCEPT ![i + 1] =
                      <<StatPair(PermSplit(permuted_data, data_1, data_2)[1],
                                 PermSplit(permuted_data, data_1, data_2)[2])[1]>>]
                /\ empirical_r' =
                      <<StatPair(PermSplit(permuted_data, data_1, data_2)[1],
                                 PermSplit(permuted_data, data_1, data_2)[2])[1]>>
                /\ i' = i + 1
                /\ UNCHANGED <<pc, err, result>>
             \/ /\ Raise(ErrFunc)
                /\ UNCHANGED <<bs_replicates, empirical_r, i>>
    /\ UNCHANGED <<inputs, percentiles, bs_intercept_reps, bs_inds, bs_x, bs_y>>

\* the loop shuffling the caller's Samples in place instead of permuting a copy
PermIterShufflesInPlace ==
    /\ op = "draw_perm_reps_spearman" /\ pc = "loop" /\ i < iterations
    /\ \E permuted_data \in Permutations(data_1 \o data_2) :
          /\ data_1' = PermSplit(permuted_data, data_1, data_2)[1]
          /\ data_2' = PermSplit(permuted_data, data_1, data_2)[2]
          /\ perm_sample_1' = PermSplit(permuted_data, data_1, data_2)[1]
          /\ perm_sample_2' = PermSplit(permuted_data, data_1, data_2)[2]
          /\ rng_calls' = rng_calls + 1
          /\ func_calls' = func_calls + 1
          /\ func_args' = PermSplit(permuted_data, data_1, data_2)
          /\ \/ /\ bs_replicates' = [bs_replicates EXCEPT ![i + 1] =
                      <<StatPair(PermSplit(permuted_data, data_1, data_2)[1],
                                 PermSplit(permuted_data, data_1, data_2)[2])[1]>>]
                /\ i' = i + 1
                /\ UNCHANGED <<pc, err, result>>
             \/ /\ Raise(ErrFunc)
                /\ UNCHANGED <<bs_replicates, i>>
    /\ UNCHANGED <<op, iterations, ci, percentiles, bs_intercept_reps, bs_inds, bs_x, bs_y,
                   empirical_r>>

\* lines 104-112 with permutation_sample (lines 87-97), one pass of the loop
PermIter ==
    /\ op = "draw_perm_reps_spearman" /\ pc = "loop" /\ i < iterations
    /\ \E permuted_data \in Permutations(data_1 \o data_2) :
          /\ perm_sample_1' = PermSplit(permuted_data, data_1, data_2)[1]
          /\ perm_sample_2' = PermSplit(permuted_data, data_1, data_2)[2]
          /\ rng_calls' = rng_calls + 1
          /\ func_calls' = func_calls + 1
          /\ func_args' = PermSplit(permuted_data, data_1, data_2)
          /\ \/ /\ bs_replicates' = [bs_replicates EXCEPT ![i + 1] =
                      <<StatPair(PermSplit(permuted_data, data_1, data_2)[1],
                                 PermSplit(permuted_data, data_1, data_2)[2])[1]>>]
                /\ i' = i + 1
                /\ UNCHANGED <<pc, err, result>>
             \/ /\ Raise(ErrFunc)
                /\ UNCHANGED <<bs_replicates, i>>
    /\ UNCHANGED <<inputs, percentiles, bs_intercept_reps, bs_inds, bs_x, bs_y, empirical_r>>

\* lines 114-125, after the loop: percentiles from ci, np.percentile, p-value, return
PermFinish ==
    /\ op = "draw_perm_reps_spearman" /\ pc = "loop" /\ i >= iterations
    /\ percentiles' = ChoosePercentiles(ci)
    /\ \/ /\ ChoosePercentiles(ci) = <<>>
          /\ Raise(ErrUnbound)
       \/ /\ ChoosePercentiles(ci) # <<>> /\ bs_replicates = <<>>
          /\ Raise(ErrEmptyPercentile)
       \/ /\ ChoosePercentiles(ci) # <<>> /\ bs_replicates # <<>>
          /\ result' = <<bs_replicates,
                         PValue(Stored(bs_replicates), empirical_r[1]),
                         Percentile(Stored(bs_replicates), ChoosePercentiles(ci))>>
          /\ pc' = "done"
          /\ UNCHANGED err
    /\ UNCHANGED <<inputs, i, bs_replicates, bs_intercept_reps, bs_inds, bs_x, bs_y,
                   perm_sample_1, perm_sample_2, empirical_r, func_calls, func_args, rng_calls>>

----------------------------------------------------------------------------
Next ==
    \/ BootstrapSetup \/ BootstrapIter \/ BootstrapFinish
    \/ PairsSetup \/ PairsIter \/ PairsFinish
    \/ LinRegSetup \/ LinRegIter \/ LinRegFinish
    \/ PermSetup \/ PermIter \/ PermFinish

Spec == Init /\ [][Next]_vars

TypeOK ==
    /\ pc \in {"entry", "loop", "done", "error"}
    /\ i \in 0..MaxB
    /\ (pc = "done") => (err = "" /\ result # <<>>)
    /\ (pc = "error") => (err # "" /\ result = <<>>)

----------------------------------------------------------------------------
\* vocabulary of the properties

Paired == op \in {"bootstrap_pairs", "boostrap_pairs_lin_reg"}

Permutation == op = "draw_perm_reps_spearman"

\* non-empty Samples, B >= 1, a supported Confidence Level
ValidCall ==
    /\ Len(data_1) >= 1
    /\ (op # "bootstrap") => Len(data_2) >= 1
    /\ iterations >= 1
    /\ ci \in {95, 99}

\* the call is over: it returned or raised
Ended == pc \notin {"entry", "loop"}

\* the Replicate Collections a finished call handed back
ReturnedCollections ==
    IF op = "boostrap_pairs_lin_reg" THEN {result[1], result[2]} ELSE {result[1]}

\* the Interval a finished call handed back, times 1000
ReturnedInterval == result[Len(result)]

\* the collection the Interval is computed from
IntervalSource == Stored(result[1])

MinOf(s) == CHOOSE v \in {s[k] : k \in 1..Len(s)} : \A k \in 1..Len(s) : v <= s[k]

MaxOf(s) == CHOOSE v \in {s[k] : k \in 1..Len(s)} : \A k \in 1..Len(s) : v >= s[k]

Occurrences(v, s) == Cardinality({k \in 1..Len(s) : s[k] = v})

----------------------------------------------------------------------------
\* C1: every Replicate Collection returned by a valid call of one of the four
\* operations has exactly B = iterations entries (slopes and intercepts alike).
C1_ReplicateLength ==
    (pc = "done" /\ ValidCall) => \A c \in ReturnedCollections : Len(c) = iterations

\* a valid call of the regression bootstrap has returned two collections of B = MaxB entries
C1_Witness ==
    /\ pc = "done" /\ ValidCall
    /\ op = "boostrap_pairs_lin_reg"
    /\ iterations = MaxB
    /\ Len(result[1]) = MaxB /\ Len(result[2]) = MaxB

\* C2: in the paired bootstraps one index set is drawn per iteration and applied to
\* both Samples: the resample is (data_1[j], data_2[j]) at every position, j being
\* the index drawn for that position, and func is applied to exactly that resample.
C2_PairingPreserved ==
    (Paired /\ func_calls > 0) =>
        /\ rng_calls = (IF err \in {ErrFunc, ErrIloc} THEN i + 1 ELSE i)
        /\ func_args = <<bs_x, bs_y>>
        /\ Len(bs_x) = Len(bs_y)
        /\ \A k \in 1..Len(bs_x) :
              \E j \in 1..Min2(Len(data_1), Len(data_2)) :
                  bs_x[k] = data_1[j] /\ bs_y[k] = data_2[j]
        /\ (err # ErrIloc) =>
              /\ Len(bs_inds) = Len(bs_x)
              /\ \A k \in 1..Len(bs_x) :
                    bs_x[k] = data_1[bs_inds[k]] /\ bs_y[k] = data_2[bs_inds[k]]

\* func has been applied to a resample that reorders two Samples whose values
\* tell a paired resample from an unpaired one
C2_Witness ==
    /\ op = "bootstrap_pairs" /\ func_calls > 0
    /\ data_1 = <<1, 2>> /\ data_2 = <<2, 1>>
    /\ bs_inds = <<2, 1>>
    /\ func_args = <<(<<2, 1>>), (<<1, 2>>)>>

\* C3: the p-value returned by draw_perm_reps_spearman is the number of replicates
\* >= the statistic of the original (data_1, data_2), over B; it lies in [0, 1].
C3_PValue ==
    (Permutation /\ pc = "done") =>
        LET reps == Stored(result[1])
            emp  == StatPair(data_1, data_2)[1]
            p    == result[2]
        IN  /\ p[2] = iterations /\ p[2] >= 1
            /\ p[1] = Cardinality({k \in 1..Len(reps) : reps[k] >= emp})
            /\ 0 <= p[1] /\ p[1] <= p[2]

\* a permutation test has returned with one replicate equal to the empirical
\* statistic and one below it: p = 1/2
C3_Witness ==
    /\ Permutation /\ pc = "done"
    /\ \E k \in 1..Len(result[1]) : result[1][k] = empirical_r
    /\ \E k \in 1..Len(result[1]) : result[1][k][1] < empirical_r[1]
    /\ result[2] = <<1, 2>>

\* C4: the Interval of a call that returned has low <= high and lies within
\* [min(replicates), max(replicates)] of the collection it is computed from.
C4_IntervalBounds ==
    (pc = "done") =>
        /\ ReturnedInterval[1] <= ReturnedInterval[2]
        /\ 1000 * MinOf(IntervalSource) <= ReturnedInterval[1]
        /\ ReturnedInterval[2] <= 1000 * MaxOf(IntervalSource)

\* an Interval strictly inside the range of two replicates stored in decreasing order
C4_Witness ==
    /\ pc = "done"
    /\ Len(IntervalSource) = 2
    /\ IntervalSource[1] > IntervalSource[2]
    /\ 1000 * MinOf(IntervalSource) < ReturnedInterval[1]
    /\ ReturnedInterval[1] < ReturnedInterval[2]
    /\ ReturnedInterval[2] < 1000 * MaxOf(IntervalSource)

\* C5: a paired bootstrap called with len(data_1) # len(data_2), and otherwise valid
\* arguments, raises before any resampling: no index set is drawn, func is never
\* applied, nothing is returned.
C5_MismatchFailsFast ==
    (Paired /\ ValidCall /\ Len(data_1) # Len(data_2)) =>
        (rng_calls = 0 /\ func_calls = 0 /\ pc # "done")

\* C6: ci = 95 selects the cut-points (2.5, 97.5) and ci = 99 selects (0.5, 99.5),
\* the Interval returned is the percentiles at those cut-points, and a call with any
\* other ci can only end in an error, with nothing returned.
C6_ConfidenceLevel ==
    /\ (percentiles # <<>>) =>
          \/ ci = 95 /\ percentiles = <<25, 975>>
          \/ ci = 99 /\ percentiles = <<5, 995>>
    /\ (pc = "done") =>
          /\ ci \in {95, 99}
          /\ ReturnedInterval =
                <<PercentileOf(IntervalSource, IF ci = 95 THEN 25 ELSE 5),
                  PercentileOf(IntervalSource, IF ci = 95 THEN 975 ELSE 995)>>
    /\ (ci \notin {95, 99}) =>
          /\ pc # "done" /\ result = <<>>
          /\ Ended => (pc = "error" /\ err \in {ErrUnbound, ErrFunc, ErrIloc, ErrNegative})

\* a call with ci = 90 whose loop ran to the end has failed on the unbound percentiles
C6_Witness ==
    /\ ci = 90 /\ iterations = MaxB /\ i = iterations
    /\ pc = "error" /\ err = ErrUnbound
    /\ result = <<>>

\* C7: a call with iterations < 1, and otherwise valid arguments, is rejected:
\* np.percentile is never reached with an empty Replicate Collection and no empty
\* collection is returned.
C7_NoIterationsRejected ==
    (iterations < 1 /\ Len(data_1) >= 1 /\ ci \in {95, 99}) =>
        (err # ErrEmptyPercentile /\ pc # "done")

\* C8: a call with an empty Sample, and otherwise valid arguments, is rejected: func
\* is never applied to an empty resample and nothing is returned.
C8_EmptySampleRejected ==
    (/\ Len(data_1) = 0 \/ (op # "bootstrap" /\ Len(data_2) = 0)
     /\ iterations >= 1 /\ ci \in {95, 99}) =>
        /\ pc # "done"
        /\ (func_calls > 0) => \A k \in 1..Len(func_args) : func_args[k] # <<>>

\* C9: a run is all-or-nothing.  When func fails the call ends there: the failing
\* application is the last one, nothing runs after it and nothing is returned.  A
\* call that returns hands back a collection whose B cells were all stored, each by
\* its own application of func; and a valid call on Samples of equal length ends
\* in no other way than by returning or by func failing.
C9_AllOrNothing ==
    LET before == IF Permutation THEN 1 ELSE 0
    IN  /\ (pc = "error") => (result = <<>> /\ ~ENABLED Next)
        /\ (err = ErrFunc) =>
              /\ pc = "error"
              /\ func_calls = before + i + 1 \/ (Permutation /\ func_calls = 1 /\ i = 0)
              /\ i < iterations \/ (Permutation /\ func_calls = 1)
        /\ (pc = "done") =>
              /\ err = ""
              /\ func_calls = before + iterations
              /\ \A c \in ReturnedCollections :
                    Len(c) = iterations /\ \A k \in 1..Len(c) : c[k] # <<>>
        /\ (Ended /\ ValidCall /\ (Paired => Len(data_1) = Len(data_2))) =>
              (pc = "done" \/ err = ErrFunc)

\* func has failed on the second iteration, after one replicate was stored
C9_Witness ==
    /\ err = ErrFunc /\ pc = "error"
    /\ i = 1 /\ iterations = 2
    /\ bs_replicates[1] # <<>> /\ bs_replicates[2] = <<>>
    /\ result = <<>>

\* C10: in every iteration of draw_perm_reps_spearman func is applied to two parts
\* of lengths len(data_1) and len(data_2) that together hold exactly the values of
\* data_1 ++ data_2, each as often, whatever the two lengths.
C10_PermutationSplit ==
    (Permutation /\ rng_calls > 0) =>
        /\ func_args = <<perm_sample_1, perm_sample_2>>
        /\ Len(perm_sample_1) = Len(data_1)
        /\ Len(perm_sample_2) = Len(data_2)
        /\ \A v \in Values :
              Occurrences(v, perm_sample_1 \o perm_sample_2) = Occurrences(v, data_1 \o data_2)

\* an iteration on Samples of different lengths has moved a value across the split
C10_Witness ==
    /\ Permutation /\ rng_calls > 0
    /\ data_1 = <<1>> /\ data_2 = <<2, 2>>
    /\ perm_sample_1 = <<2>> /\ perm_sample_2 = <<1, 2>>

\* C11: in boostrap_pairs_lin_reg every pass of the loop stores, at the cell of its
\* iteration and in both collections, the two components of one application of func
\* to the resample of that iteration; no other cell of either collection changes
\* afterwards; and the Interval returned is the percentiles of the slope collection.
C11_SlopeInterceptAligned ==
    [][(op = "boostrap_pairs_lin_reg" /\ pc = "loop") =>
          /\ (i' = i + 1) =>
                /\ func_calls' = func_calls + 1
                /\ func_args' = <<Take(data_1, bs_inds'), Take(data_2, bs_inds')>>
                /\ bs_replicates' = [bs_replicates EXCEPT ![i + 1] =
                                        <<StatReg(func_args'[1], func_args'[2])[1]>>]
                /\ bs_intercept_reps' = [bs_intercept_reps EXCEPT ![i + 1] =
                                            <<StatReg(func_args'[1], func_args'[2])[2]>>]
          /\ (i' = i) =>
                UNCHANGED <<bs_replicates, bs_intercept_reps>>
          /\ (pc' = "done") =>
                result' = <<bs_replicates, bs_intercept_reps,
                            Percentile(Stored(bs_replicates), ChoosePercentiles(ci))>>
      ]_vars

\* a regression bootstrap has returned two replicates whose slopes and intercepts
\* have different percentiles
C11_Witness ==
    /\ op = "boostrap_pairs_lin_reg" /\ pc = "done"
    /\ iterations = 2
    /\ result[1][1] # result[1][2]
    /\ Percentile(Stored(result[2]), percentiles) # result[3]

\* C12: in bootstrap_pairs and draw_perm_reps_spearman every pass of the loop stores
\* the first component of what func returned for the resample of that pass, at the
\* cell of its iteration, and leaves the other cells alone; the Interval and the
\* p-value are computed from these first components and the first component of the
\* empirical application.
C12_StatisticOnly ==
    [][(op \in {"bootstrap_pairs", "draw_perm_reps_spearman"} /\ pc = "loop") =>
          /\ (i' = i + 1) =>
                /\ func_calls' = func_calls + 1
                /\ bs_replicates' = [bs_replicates EXCEPT ![i + 1] =
                                        <<Dot(func_args'[1], func_args'[2])>>]
          /\ (i' = i) =>
                UNCHANGED bs_replicates
          /\ (pc' = "done") =>
                /\ result'[1] = bs_replicates
                /\ result'[Len(result')] =
                      Percentile(Stored(bs_replicates), ChoosePercentiles(ci))
                /\ Permutation =>
                      result'[2] = <<Cardinality({k \in 1..Len(bs_replicates) :
                                        bs_replicates[k][1] >= Dot(data_1, data_2)}),
                                     Len(bs_replicates)>>
      ]_vars

\* a paired bootstrap has stored a replicate whose two components differ
C12_Witness ==
    /\ op = "bootstrap_pairs" /\ i >= 1 /\ err = ""
    /\ bs_replicates[i] = <<StatPair(bs_x, bs_y)[1]>>
    /\ StatPair(bs_x, bs_y)[1] # StatPair(bs_x, bs_y)[2]

\* C13: for the Replicate Collection a call returned, the Interval at Confidence
\* Level 95 lies within the Interval at Confidence Level 99, and the Interval the
\* call returned is the one of its own Confidence Level.
C13_IntervalNesting ==
    (pc = "done") =>
        LET i95 == Percentile(IntervalSource, ChoosePercentiles(95))
            i99 == Percentile(IntervalSource, ChoosePercentiles(99))
        IN  /\ i99[1] <= i95[1]
            /\ i95[2] <= i99[2]
            /\ i95[2] - i95[1] <= i99[2] - i99[1]
            /\ ReturnedInterval = (IF ci = 95 THEN i95 ELSE i99)

\* a returned collection for which the 95 Interval is strictly inside the 99 one
C13_Witness ==
    /\ pc = "done" /\ ci = 95
    /\ Percentile(IntervalSource, <<5, 995>>)[1] < ReturnedInterval[1]
    /\ ReturnedInterval[2] < Percentile(IntervalSource, <<5, 995>>)[2]

\* C15: no step of any of the four operations changes an input Sample; data_1 and
\* data_2 hold the caller's values at every point of a call, returned or failed.
C15_InputsReadOnly ==
    [][data_1' = data_1 /\ data_2' = data_2]_vars

\* a permutation call has ended after handing func a rearrangement of the Samples
C15_Witness ==
    /\ Permutation /\ Ended
    /\ rng_calls > 0
    /\ perm_sample_1 # data_1
    /\ func_args = <<perm_sample_1, perm_sample_2>>

\* C16: in bootstrap every pass of the loop makes one draw and one application of
\* func, to a resample of exactly len(data) elements each of which is an element of
\* data, and stores what func returned for that resample at the cell of the pass;
\* no other cell changes, and a call returns after exactly B passes.
C16_BootstrapResample ==
    [][(op = "bootstrap" /\ pc = "loop") =>
          /\ (i' = i + 1) =>
                /\ rng_calls' = rng_calls + 1
                /\ func_calls' = func_calls + 1
                /\ Len(func_args') = 1
                /\ Len(func_args'[1]) = Len(data_1)
                /\ \A k \in 1..Len(func_args'[1]) :
                      \E j \in 1..Len(data_1) : func_args'[1][k] = data_1[j]
                /\ bs_replicates' = [bs_replicates EXCEPT ![i + 1] =
                                        <<Sum(func_args'[1])>>]
          /\ (i' = i) =>
                UNCHANGED bs_replicates
          /\ (pc' = "done") =>
                /\ i = iterations
                /\ func_calls = iterations /\ rng_calls = iterations
      ]_vars

\* a bootstrap call has returned after a resample that repeats one element of a
\* Sample of two different elements
C16_Witness ==
    /\ op = "bootstrap" /\ pc = "done"
    /\ data_1 = <<1, 2>>
    /\ func_args = <<(<<2, 2>>)>>
    /\ bs_replicates[iterations] = <<4>>

(* The regression scenario: boostrap_pairs_lin_reg called with lin_reg on the    *)
(* Samples x = 1..5 and y = 2x.  Coefficients are exact rationals; they are      *)
(* stored in units of 1/Unit, where Unit is a common multiple of every           *)
(* denominator that occurs, so the replicate 2 is the cell <<2 * Unit>>.         *)
SampleX == <<1, 2, 3, 4, 5>>
SampleY == <<2, 4, 6, 8, 10>>

RECURSIVE Product(_)
Product(s) == IF s = <<>> THEN 1 ELSE Head(s) * Product(Tail(s))

Unit == Product([k \in 1..Len(SampleX) |-> 1 + SampleX[k] * SampleX[k]])

\* the determinant of the normal equations of y = intercept + slope * x
Den(x) == Len(x) * Dot(x, x) - Sum(x) * Sum(x)
SlopeNum(x, y) == Len(x) * Dot(x, y) - Sum(x) * Sum(y)
InterceptNum(x, y) == Sum(y) * Dot(x, x) - Sum(x) * Dot(x, y)

\* the two coefficients read in the other order
LeastSquaresSwapped(x, y) ==
    <<(Unit * InterceptNum(x, y)) \div Den(x), (Unit * SlopeNum(x, y)) \div Den(x)>>

\* lin_reg on a resample with at least two different x: (slope, intercept)
LeastSquares(x, y) ==
    <<(Unit * SlopeNum(x, y)) \div Den(x), (Unit * InterceptNum(x, y)) \div Den(x)>>

\* lin_reg on a resample whose x are all equal to c, when the solver returns the
\* least-squares solution of minimum norm: mean(y) / (1 + c * c) times (c, 1)
MinNorm(x, y) ==
    <<(Unit * x[1] * Sum(y)) \div (Len(x) * (1 + x[1] * x[1])),
      (Unit * Sum(y)) \div (Len(x) * (1 + x[1] * x[1]))>>

InitLinReg ==
    /\ op = "boostrap_pairs_lin_reg"
    /\ data_1 = SampleX
    /\ data_2 = SampleY
    /\ iterations \in (0 - 1)..MaxB
    /\ Len(data_1) * iterations <= MaxDraws
    /\ ci \in CiValues
    /\ pc = "entry"
    /\ i = 0
    /\ percentiles = <<>>
    /\ bs_replicates = <<>>
    /\ bs_intercept_reps = <<>>
    /\ bs_inds = <<>>
    /\ bs_x = <<>>
    /\ bs_y = <<>>
    /\ perm_sample_1 = <<>>
    /\ perm_sample_2 = <<>>
    /\ empirical_r = <<>>
    /\ func_calls = 0
    /\ func_args = <<>>
    /\ rng_calls = 0
    /\ err = ""
    /\ result = <<>>

\* lines 215-221 with func = lin_reg (lines 312-314), one pass of the loop.  On a
\* resample with a single x the regression is rank deficient: pg.linear_regression
\* either drops the constant column, and coef.iloc[1] raises, or returns the
\* minimum-norm solution, depending on the installed version.
LinRegIterLinReg ==
    /\ op = "boostrap_pairs_lin_reg" /\ pc = "loop" /\ i < iterations
    /\ \E inds \in IndexSets(Len(data_1)) :
          /\ bs_inds' = inds
          /\ rng_calls' = rng_calls + 1
          /\ \/ /\ OutOfBounds(data_2, inds)
                /\ Raise(ErrIloc)
                /\ UNCHANGED <<bs_x, bs_y, func_calls, func_args, bs_replicates,
                               bs_intercept_reps, i>>
             \/ /\ ~OutOfBounds(data_2, inds)
                /\ bs_x' = PairResample(data_1, data_2, inds)[1]
                /\ bs_y' = PairResample(data_1, data_2, inds)[2]
                /\ func_calls' = func_calls + 1
                /\ func_args' = PairResample(data_1, data_2, inds)
                /\ LET x == PairResample(data_1, data_2, inds)[1]
                       y == PairResample(data_1, data_2, inds)[2]
                   IN  \/ /\ Den(x) # 0
                          /\ bs_replicates' = [bs_replicates EXCEPT ![i + 1] =
                                                  <<LeastSquares(x, y)[1]>>]
                          /\ bs_intercept_reps' = [bs_intercept_reps EXCEPT ![i + 1] =
                                                      <<LeastSquares(x, y)[2]>>]
                          /\ i' = i + 1
                          /\ UNCHANGED <<pc, err, result>>
                       \/ /\ Den(x) = 0 /\ x # <<>>
                          /\ bs_replicates' = [bs_replicates EXCEPT ![i + 1] =
                                                  <<MinNorm(x, y)[1]>>]
                          /\ bs_intercept_reps' = [bs_intercept_reps EXCEPT ![i + 1] =
                                                      <<MinNorm(x, y)[2]>>]
                          /\ i' = i + 1
                          /\ UNCHANGED <<pc, err, result>>
                       \/ /\ Den(x) = 0
                          /\ Raise(ErrFunc)
                          /\ UNCHANGED <<bs_replicates, bs_intercept_reps, i>>
    /\ UNCHANGED <<inputs, percentiles, perm_sample_1, perm_sample_2, empirical_r>>

NextLinReg ==
    \/ LinRegSetup
    \/ LinRegIterLinReg
    \/ LinRegFinish

SpecLinReg == InitLinReg /\ [][NextLinReg]_vars

\* the index set of the last pass names one position only
SingleIndex == \A k \in 1..Len(bs_inds) : bs_inds[k] = bs_inds[1]

\* C17 as stated: in the regression scenario every pass, whatever index set it
\* drew, stores the slope 2 and the intercept 0.
C17_AnyResample ==
    (rng_calls > 0) =>
        /\ err # ErrFunc
        /\ i >= 1
        /\ bs_replicates[i] = <<2 * Unit>>
        /\ bs_intercept_reps[i] = <<0>>

\* C17: in the regression scenario every pass whose index set names at least two
\* different positions stores the slope 2 and the intercept 0; a pass whose index
\* set repeats a single position has no unique least-squares line and either fails
\* or stores other values.
C17_DistinctXResample ==
    (rng_calls > 0) =>
        IF SingleIndex
        THEN \/ err = ErrFunc /\ i = rng_calls - 1
             \/ /\ err # ErrFunc /\ i = rng_calls
                /\ bs_replicates[i] # <<2 * Unit>>
                /\ bs_intercept_reps[i] # <<0>>
        ELSE /\ err # ErrFunc
             /\ i = rng_calls
             /\ SlopeNum(bs_x, bs_y) = 2 * Den(bs_x)
             /\ InterceptNum(bs_x, bs_y) = 0
             /\ bs_replicates[i] = <<2 * Unit>>
             /\ bs_intercept_reps[i] = <<0>>

\* the scenario has returned after a resample that repeats positions but names
\* more than one
C17_Witness ==
    /\ pc = "done"
    /\ data_1 = SampleX /\ data_2 = SampleY
    /\ bs_inds = <<1, 1, 4, 4, 4>>
    /\ result[1] = <<(<<2 * Unit>>)>>
    /\ result[2] = <<(<<0>>)>>

\* C18: in draw_perm_reps_spearman the first step applies func once to the original
\* (data_1, data_2), before any permutation is drawn, and binds the empirical
\* statistic; no pass of the loop and no later step changes it; every pass makes one
\* draw and one application, so a call that returns has applied func exactly B + 1
\* times and drawn exactly B permutations.
C18_EmpiricalOnce ==
    [][Permutation =>
          /\ (pc = "entry") =>
                /\ func_calls = 0 /\ rng_calls = 0 /\ empirical_r = <<>>
                /\ func_calls' = 1 /\ rng_calls' = 0
                /\ func_args' = <<data_1, data_2>>
                /\ (pc' = "loop") => empirical_r' = <<Dot(data_1, data_2)>>
          /\ (pc = "loop") =>
                /\ empirical_r = <<Dot(data_1, data_2)>>
                /\ empirical_r' = empirical_r
                /\ func_calls = 1 + i /\ rng_calls = i
                /\ (i' = i + 1) => (func_calls' = func_calls + 1 /\ rng_calls' = rng_calls + 1)
          /\ (pc' = "done") =>
                /\ i = iterations
                /\ func_calls' = iterations + 1
                /\ rng_calls' = iterations
      ]_vars

\* a permutation call has returned after two passes, the last on a rearrangement
\* whose statistic is not the empirical one
C18_Witness ==
    /\ Permutation /\ pc = "done"
    /\ iterations = 2
    /\ func_calls = 3 /\ rng_calls = 2
    /\ empirical_r = <<Dot(data_1, data_2)>>
    /\ Dot(perm_sample_1, perm_sample_2) # empirical_r[1]

\* C19 as stated: a call whose Confidence Level is neither 95 nor 99, whose other
\* arguments are valid and whose func does not fail, makes no draw and no
\* application of func: it fails before the first of them.
C19_InvalidCiImmediate ==
    (/\ ci \notin {95, 99}
     /\ err # ErrFunc
     /\ iterations >= 1
     /\ Len(data_1) >= 1
     /\ op # "bootstrap" => Len(data_2) = Len(data_1)) =>
        /\ rng_calls = 0
        /\ func_calls = 0

\* C20: in bootstrap_pairs and boostrap_pairs_lin_reg every pass draws exactly
\* len(data_1) positions, each a position of data_1, whatever the length of data_2;
\* the resample of data_2 is read at those positions, so an element of data_2 past
\* the end of data_1 is never used; and the out-of-range failure on data_2 happens
\* in exactly the passes that drew a position past the end of data_2.
C20_IndexUniverse ==
    (Paired /\ rng_calls > 0) =>
        /\ Len(bs_inds) = Len(data_1)
        /\ \A k \in 1..Len(bs_inds) : bs_inds[k] \in 1..Len(data_1)
        /\ (err = ErrIloc) <=> (\E k \in 1..Len(bs_inds) : bs_inds[k] > Len(data_2))
        /\ (func_calls > 0) =>
              /\ Len(func_args[2]) = Len(data_1)
              /\ \E inds \in [1..Len(data_1) -> 1..Min2(Len(data_1), Len(data_2))] :
                    func_args = <<Take(data_1, inds), Take(data_2, inds)>>
        /\ (err # ErrIloc) =>
              func_args = <<Take(data_1, bs_inds), Take(data_2, bs_inds)>>

\* a paired call has returned on a second Sample longer than the first, whose
\* extra element is in no resample
C20_Witness ==
    /\ Paired /\ pc = "done"
    /\ data_1 = <<1>> /\ data_2 = <<1, 2>>
    /\ bs_inds = <<1>>
    /\ func_args = <<(<<1>>), (<<1>>)>>

====
